---- MODULE Spec2Model ----
(***************************************************************************)
(* Model of the retrieval-augmented-generation service: the layout cache   *)
(* written by DocumentLayoutAnalyzer, the PDF loader that fuses it into    *)
(* document text, the index lifecycle (create / save / load) and the       *)
(* query path of RAGService.                                               *)
(***************************************************************************)
EXTENDS Integers, Sequences, FiniteSets, TLC

(* ------------------------------ bounds --------------------------------- *)
\* largest number of PDF files in the pdfs directory of the service runs
MaxPdfs == 2
\* largest number of PDF files in the directory of the loader runs
MaxScan == 3
\* build_index runs explored per behaviour (they number the built indexes)
MaxBuilds == 2

\* longest text given to clean_text
MaxText == 6
\* longest text of one page given to load_single_pdf
MaxPageText == 2

(* --------------------------- file-system names ------------------------- *)
\* A file name is a sequence of string tokens, a path a sequence of names.
Digit == <<"0", "1", "2", "3", "4", "5", "6", "7", "8", "9">>

\* Python's str(i) / f"{i}" for a small natural
Str(i) == Digit[i + 1]

\* Python's int(s) for a single-digit string; -1 stands for ValueError
ParseInt(s) == IF \E i \in 1..Len(Digit) : Digit[i] = s
               THEN (CHOOSE i \in 1..Len(Digit) : Digit[i] = s) - 1
               ELSE -1

\* page_dir = doc_output_dir / f"page_{i}"
PageDirName(i) == <<"page_", Str(i)>>

\* image_path = page_dir / "full.jpg"
FullJpg == <<"full", ".jpg">>

\* crop_filename = f"{label}_{label_index}.jpg"
CropName(label, k) == <<label, "_", Str(k), ".jpg">>

\* page_dir / "layout.json"
LayoutJson == <<"layout", ".json">>

(* ------------------------------ text ----------------------------------- *)
\* A text is a sequence of characters: a letter, the space, the newline.
NL == "\n"
SP == " "
Chars == {"a", SP, NL}

\* all texts of at most n characters
RECURSIVE TextsOfLen(_)
TextsOfLen(n) ==
    IF n = 0 THEN {<<>>}
    ELSE {Append(s, c) : s \in TextsOfLen(n - 1), c \in Chars}

Texts(n) == UNION {TextsOfLen(k) : k \in 0..n}

\* the length of the run of character c that s starts with
RECURSIVE RunLength(_, _)
RunLength(s, c) ==
    IF s = <<>> \/ Head(s) # c THEN 0 ELSE 1 + RunLength(Tail(s), c)

\* re.sub had its pattern been \n{3}: every three newlines become two
RECURSIVE CollapseNewlinesByThree(_)
CollapseNewlinesByThree(s) ==
    IF s = <<>> THEN <<>>
    ELSE IF RunLength(s, NL) >= 3
    THEN <<NL, NL>> \o CollapseNewlinesByThree(SubSeq(s, 4, Len(s)))
    ELSE <<Head(s)>> \o CollapseNewlinesByThree(Tail(s))

\* re.sub(r'\n{3,}', '\n\n', text): every maximal run of three or more
\* newlines becomes two
RECURSIVE CollapseNewlines(_)
CollapseNewlines(s) ==
    IF s = <<>> THEN <<>>
    ELSE IF RunLength(s, NL) >= 3
    THEN <<NL, NL>> \o CollapseNewlines(SubSeq(s, RunLength(s, NL) + 1, Len(s)))
    ELSE <<Head(s)>> \o CollapseNewlines(Tail(s))

\* re.sub(r' +', ' ', text): every maximal run of spaces becomes one
RECURSIVE CollapseSpaces(_)
CollapseSpaces(s) ==
    IF s = <<>> THEN <<>>
    ELSE IF Head(s) = SP
    THEN <<SP>> \o CollapseSpaces(SubSeq(s, RunLength(s, SP) + 1, Len(s)))
    ELSE <<Head(s)>> \o CollapseSpaces(Tail(s))

\* str.isspace for the characters of a text
IsSpace(c) == c \in {SP, NL}

RECURSIVE LStrip(_)
LStrip(s) == IF s # <<>> /\ IsSpace(Head(s)) THEN LStrip(Tail(s)) ELSE s

RECURSIVE RStrip(_)
RStrip(s) ==
    IF s # <<>> /\ IsSpace(s[Len(s)]) THEN RStrip(SubSeq(s, 1, Len(s) - 1)) ELSE s

\* text.strip()
Strip(s) == RStrip(LStrip(s))

\* utils.text_utils.clean_text
CleanText(s) == Strip(CollapseSpaces(CollapseNewlines(s)))

\* sep.join(parts)
RECURSIVE Join(_, _)
Join(parts, sep) ==
    IF parts = <<>> THEN <<>>
    ELSE IF Len(parts) = 1 THEN parts[1]
    ELSE parts[1] \o sep \o Join(Tail(parts), sep)

\* doc_pages of load_single_pdf: the text of page i (0-based) followed, when
\* layout_info has descriptions for it, by a blank line and the descriptions
DocPages(pages, layout_info) ==
    [k \in 1..Len(pages) |->
        IF (k - 1) \in DOMAIN layout_info /\ layout_info[k - 1] # <<>>
        THEN pages[k] \o <<NL, NL>> \o Join(layout_info[k - 1], <<NL>>)
        ELSE pages[k]]

\* load_single_pdf had it cleaned every page before joining them
DocTextCleanedPerPage(pages, layout_info) ==
    Join([k \in 1..Len(pages) |-> CleanText(DocPages(pages, layout_info)[k])],
         <<NL, NL>>)

\* the text of the document load_single_pdf returns: the pages joined by a
\* blank line, then cleaned
DocText(pages, layout_info) ==
    CleanText(Join(DocPages(pages, layout_info), <<NL, NL>>))

(* ------------------------------ PDF files ------------------------------ *)
\* A PDF file, as the readers see it: loadable is whether PyMuPDFReader.load
\* succeeds, renderOK whether pdf2image.convert_from_path succeeds, and each
\* page carries what the detector returns for it (dets, in detection order)
\* and whether model.predict succeeds on it.
Page(dets, ok) == [dets |-> dets, detectOK |-> ok]

Pdf(loadable, renderOK, pages) ==
    [loadable |-> loadable, renderOK |-> renderOK, pages |-> pages]

GoodPdf     == Pdf(TRUE, TRUE, <<Page(<<"table", "table_caption", "table">>, TRUE)>>)
CorruptPdf  == Pdf(FALSE, TRUE, <<Page(<<"title">>, TRUE)>>)
NoRenderPdf == Pdf(TRUE, FALSE, <<Page(<<"figure">>, TRUE)>>)
NoDetectPdf == Pdf(TRUE, TRUE, <<Page(<<"figure">>, FALSE)>>)

PdfFiles == {GoodPdf, CorruptPdf, NoRenderPdf, NoDetectPdf}

\* all sequences over S of length n
RECURSIVE SeqsOfLen(_, _)
SeqsOfLen(S, n) ==
    IF n = 0 THEN {<<>>}
    ELSE {Append(s, x) : s \in SeqsOfLen(S, n - 1), x \in S}

\* the directories of at most n PDF files
PdfDirs(n) == UNION {SeqsOfLen(PdfFiles, k) : k \in 0..n}

\* two more files for the runs of the analyzer: one with two pages that share
\* a label, one whose second page the detector fails on
TwoPagePdf    == Pdf(TRUE, TRUE, <<Page(<<"table", "table">>, TRUE),
                                   Page(<<"table", "figure">>, TRUE)>>)
HalfDetectPdf == Pdf(TRUE, TRUE, <<Page(<<"title">>, TRUE),
                                   Page(<<"figure">>, FALSE)>>)

CachePdfFiles == PdfFiles \cup {TwoPagePdf, HalfDetectPdf}

\* the directories of at most n of these files
CachePdfDirs(n) == UNION {SeqsOfLen(CachePdfFiles, k) : k \in 0..n}

(* ------------------------------ layout cache --------------------------- *)
\* One directory per document under STORAGE_DIR/layout_outputs: whether it
\* exists, the paths below it, and the content of each page's layout.json.
NoDir == [exists |-> FALSE, entries |-> {}, layout |-> <<>>]

\* one manifest element of layout.json (bbox omitted: it is copied from the
\* detection unchanged and nothing reads it back)
Element(label, k, page) ==
    [id |-> <<label, "_", Str(k)>>, label |-> label, page |-> page,
     image |-> CropName(label, k)]

\* label_counts.get(label, 0) over the detections seen so far
CountLabel(dets, label) == Cardinality({j \in 1..Len(dets) : dets[j] = label})

\* _analyze_image had it numbered the crops by their position among all
\* detections of the page (the loop's i) instead of per label
LayoutDataNumberedByPosition(dets, page) ==
    [j \in 1..Len(dets) |-> Element(dets[j], j - 1, page)]

\* the loop of _analyze_image: the j-th detection gets index
\* label_counts[label] - 1
LayoutData(dets, page) ==
    [j \in 1..Len(dets) |->
        Element(dets[j], CountLabel(SubSeq(dets, 1, j), dets[j]) - 1, page)]

\* _analyze_image on page number i (0-based) of a rendered document:
\* crops written by cv2.imwrite, then layout.json
AnalyzeImage(c, i, dets) ==
    LET data == LayoutData(dets, i)
        crops == {<<PageDirName(i), data[j].image>> : j \in 1..Len(dets)}
    IN [exists  |-> TRUE,
        entries |-> c.entries \cup crops \cup {<<PageDirName(i), LayoutJson>>},
        layout  |-> [p \in (DOMAIN c.layout) \cup {i + 1} |->
                        IF p = i + 1 THEN data ELSE c.layout[p]]]

\* the page loop of analyze_pdf from page index i (1-based position in
\* pdf.pages); r is [cache, raised, predicts]
RECURSIVE AnalyzePages(_, _, _)
AnalyzePages(r, pdf, i) ==
    IF i > Len(pdf.pages) THEN r
    ELSE LET saved == [r.cache EXCEPT !.entries =
                          @ \cup {<<PageDirName(i - 1)>>,
                                  <<PageDirName(i - 1), FullJpg>>}]
         IN IF ~pdf.pages[i].detectOK
            THEN [cache |-> saved, raised |-> TRUE, predicts |-> r.predicts + 1]
            ELSE AnalyzePages(
                   [cache    |-> AnalyzeImage(saved, i - 1, pdf.pages[i].dets),
                    raised   |-> FALSE,
                    predicts |-> r.predicts + 1],
                   pdf, i + 1)

\* DocumentLayoutAnalyzer.analyze_pdf: mkdir, render, then page by page
AnalyzePdf(c, pdf) ==
    LET made == [c EXCEPT !.exists = TRUE]
    IN IF ~pdf.renderOK
       THEN [cache |-> made, raised |-> TRUE, predicts |-> 0]
       ELSE AnalyzePages([cache |-> made, raised |-> FALSE, predicts |-> 0],
                         pdf, 1)

(* ------------------------------ PDF loader ----------------------------- *)
\* the names directly inside directory dir (a path) of cache entry c
Children(c, dir) ==
    {p[Len(dir) + 1] : p \in {q \in c.entries : /\ Len(q) = Len(dir) + 1
                                                /\ SubSeq(q, 1, Len(dir)) = dir}}

\* pdf_layout_dir.glob("page_*.jpg"): names page_<x>.jpg directly in the
\* document's directory
GlobPageJpg(c) ==
    {n \in Children(c, <<>>) : Len(n) = 3 /\ n[1] = "page_" /\ n[3] = ".jpg"}

\* <dir>.glob(f"page{page_num}_det*.jpg") inside the directory named label,
\* for the names page<n>_det_<k>.jpg whose last "_" field int() accepts
GlobDet(c, label, page_num) ==
    {n \in Children(c, <<<<label>>>>) :
        /\ Len(n) = 5
        /\ n[1] = "page" /\ n[2] = Str(page_num)
        /\ n[3] = "_det_" /\ ParseInt(n[4]) >= 0 /\ n[5] = ".jpg"}

\* one descriptive string: the element name, its 1-based number (0 for a
\* title, which prints none), the 1-based page, and the caption / footnote
\* phrases
Description(c, label, i, page_num) ==
    [name      |-> label,
     number    |-> IF label = "title" THEN 0 ELSE i,
     page      |-> page_num + 1,
     caption   |-> \/ label = "table" /\ GlobDet(c, "table_caption", page_num) # {}
                   \/ label = "figure" /\ GlobDet(c, "figure_caption", page_num) # {},
     footnotes |-> label = "table" /\ GlobDet(c, "table_footnote", page_num) # {}]

\* the descriptions of one element type on one page, in enumeration order
TypeDescriptions(c, label, page_num) ==
    IF <<<<label>>>> \notin c.entries THEN <<>>
    ELSE [i \in 1..Cardinality(GlobDet(c, label, page_num)) |->
             Description(c, label, i, page_num)]

\* rank of the printed element name: "[Figure" < "[Table" < "[Text Block"
\* < "[Title"
NameRank(label) ==
    CASE label = "figure" -> 1
      [] label = "table" -> 2
      [] label = "plain text" -> 3
      [] OTHER -> 4

\* layout_info[page_num].sort() on the printed strings
DescLess(a, b) ==
    \/ NameRank(a.name) < NameRank(b.name)
    \/ NameRank(a.name) = NameRank(b.name) /\ a.number < b.number

RECURSIVE InsertSorted(_, _)
InsertSorted(s, x) ==
    IF s = <<>> THEN <<x>>
    ELSE IF DescLess(x, Head(s)) THEN <<x>> \o s
    ELSE <<Head(s)>> \o InsertSorted(Tail(s), x)

RECURSIVE SortDescs(_)
SortDescs(s) ==
    IF s = <<>> THEN <<>> ELSE InsertSorted(SortDescs(Tail(s)), Head(s))

\* PDFLoader._get_layout_info: page number -> sorted descriptions, for the
\* pages that have a page_<n>.jpg file in the document's directory
GetLayoutInfo(c) ==
    IF ~c.exists THEN <<>>
    ELSE LET nums == {ParseInt(n[2]) : n \in GlobPageJpg(c)} \ {-1}
         IN [p \in nums |->
                SortDescs(TypeDescriptions(c, "table", p)
                          \o TypeDescriptions(c, "figure", p)
                          \o TypeDescriptions(c, "title", p)
                          \o TypeDescriptions(c, "plain text", p))]

\* "no document": what load_single_pdf returns as None
NoDocument == [source |-> 0, text |-> <<>>, has_layout_analysis |-> FALSE]

\* PDFLoader.load_single_pdf for the d-th file of the directory: one entry per
\* page (the raw page text, named by file and page, and the descriptions
\* appended to it); bool(layout_info) is the flag
LoadSinglePdf(files, c, d) ==
    IF ~files[d].loadable THEN NoDocument
    ELSE LET layout_info == GetLayoutInfo(c[d])
         IN [source |-> d,
             text   |-> [i \in 1..Len(files[d].pages) |->
                            [raw   |-> <<d, i - 1>>,
                             descs |-> IF (i - 1) \in DOMAIN layout_info
                                       THEN layout_info[i - 1] ELSE <<>>]],
             has_layout_analysis |-> DOMAIN layout_info # {}]

\* load_all_pdfs had it stopped at the first file that fails to load
RECURSIVE LoadFromUntilFailure(_, _, _)
LoadFromUntilFailure(files, c, d) ==
    IF d > Len(files) THEN <<>>
    ELSE LET document == LoadSinglePdf(files, c, d)
         IN IF document = NoDocument THEN <<>>
            ELSE <<document>> \o LoadFromUntilFailure(files, c, d + 1)

\* the loop of load_all_pdfs from file d on
RECURSIVE LoadFrom(_, _, _)
LoadFrom(files, c, d) ==
    IF d > Len(files) THEN <<>>
    ELSE LET document == LoadSinglePdf(files, c, d)
         IN (IF document # NoDocument THEN <<document>> ELSE <<>>)
            \o LoadFrom(files, c, d + 1)

\* PDFLoader.load_all_pdfs
LoadAllPdfs(files, c) == LoadFrom(files, c, 1)

(* ------------------------------ layout analysis ------------------------ *)
\* the document loop of analyze_layouts from position k on; r carries the
\* cache and what happened so far; an exception of analyze_pdf leaves the loop
RECURSIVE AnalyzeDocs(_, _, _, _)
AnalyzeDocs(r, files, documents, k) ==
    IF k > Len(documents) THEN r
    ELSE LET d == documents[k].source
             output_path == r.cache[d]
         IN IF output_path.exists /\ output_path.entries # {}
            THEN AnalyzeDocs([r EXCEPT !.skipped = @ \cup {d}],
                             files, documents, k + 1)
            ELSE LET a == AnalyzePdf(output_path, files[d])
                     rr == [cache    |-> [r.cache EXCEPT ![d] = a.cache],
                            raised   |-> a.raised,
                            analyzed |-> r.analyzed \cup {d},
                            detected |-> r.detected \cup
                                         (IF a.predicts > 0 THEN {d} ELSE {}),
                            skipped  |-> r.skipped]
                 IN IF a.raised THEN rr
                    ELSE AnalyzeDocs(rr, files, documents, k + 1)

\* RAGService.analyze_layouts: the new cache, the returned flag, and which
\* documents were skipped, analyzed (analyze_pdf called) and detected
\* (model.predict called at least once)
AnalyzeLayouts(files, c) ==
    LET documents == LoadAllPdfs(files, c)
        r0 == [cache |-> c, raised |-> FALSE, analyzed |-> {},
               detected |-> {}, skipped |-> {}]
    IN IF documents = <<>>
       THEN [cache |-> c, ret |-> FALSE, documents |-> documents,
             analyzed |-> {}, detected |-> {}, skipped |-> {}]
       ELSE LET r == AnalyzeDocs(r0, files, documents, 1)
            IN [cache |-> r.cache, ret |-> ~r.raised, documents |-> documents,
                analyzed |-> r.analyzed, detected |-> r.detected,
                skipped |-> r.skipped]

(* ------------------------------ index ---------------------------------- *)
\* chunk_documents: the splitter is a black box; every document yields its
\* chunk nodes, represented by one node that carries the document's text
\* and metadata. b numbers the build: node ids are fresh in every build.
ChunkDocuments(documents, b) ==
    [k \in 1..Len(documents) |->
        [node_id  |-> <<b, k>>,
         text     |-> documents[k].text,
         metadata |-> [source |-> documents[k].source,
                       has_layout_analysis |-> documents[k].has_layout_analysis]]]

\* the embedding collaborator: a deterministic function of the text
Embed(text) == [of |-> text]

\* the three stores of an index; the same shape is what persist() writes
NoDocstore == <<>>
NoIndexStore == [index_id |-> 0, nodes |-> {}]
NoVectorStore == <<>>

\* self.index = None
NoIndex == [docstore |-> NoDocstore, index_store |-> NoIndexStore,
            vector_store |-> NoVectorStore]

\* IndexManager.create_index: VectorStoreIndex(nodes) embeds every node once
CreateIndex(nodes, b) ==
    [docstore     |-> nodes,
     index_store  |-> [index_id |-> b,
                       nodes |-> {nodes[k].node_id : k \in 1..Len(nodes)}],
     vector_store |-> [k \in 1..Len(nodes) |->
                          [node_id |-> nodes[k].node_id,
                           vec     |-> Embed(nodes[k].text)]]]

\* the storage directory: whether it exists and the files persist() writes
NoStorage == [exists |-> FALSE, docstore |-> NoDocstore,
              index_store |-> NoIndexStore, vector_store |-> NoVectorStore]

\* save_index had it left the vector store out
SaveIndexWithoutVectors(stg, index, written) ==
    [exists       |-> stg.exists \/ written > 0,
     docstore     |-> IF written >= 1 THEN index.docstore ELSE stg.docstore,
     index_store  |-> IF written >= 2 THEN index.index_store ELSE stg.index_store,
     vector_store |-> stg.vector_store]

\* save_index had it added the new index to the stores already on disk
SaveIndexMerging(stg, index, written) ==
    [exists       |-> stg.exists \/ written > 0,
     docstore     |-> IF written >= 1 THEN stg.docstore \o index.docstore
                      ELSE stg.docstore,
     index_store  |-> IF written >= 2
                      THEN [index_id |-> index.index_store.index_id,
                            nodes |-> stg.index_store.nodes
                                      \cup index.index_store.nodes]
                      ELSE stg.index_store,
     vector_store |-> IF written >= 3 THEN stg.vector_store \o index.vector_store
                      ELSE stg.vector_store]

\* storage_context.persist writes docstore.json, index_store.json and the
\* vector store one after the other, each replacing the file of that name;
\* written is how many of them were written before persist raised (3: none)
SaveIndex(stg, index, written) ==
    [exists       |-> stg.exists \/ written > 0,
     docstore     |-> IF written >= 1 THEN index.docstore ELSE stg.docstore,
     index_store  |-> IF written >= 2 THEN index.index_store ELSE stg.index_store,
     vector_store |-> IF written >= 3 THEN index.vector_store ELSE stg.vector_store]

\* load_index had it handed back an index object for any existing directory,
\* an empty one when the directory holds no store file
LoadIndexOfAnyDirectory(stg) ==
    IF ~stg.exists THEN NoIndex
    ELSE IF /\ stg.docstore # NoDocstore
            /\ stg.index_store # NoIndexStore
            /\ stg.vector_store # NoVectorStore
    THEN [docstore |-> stg.docstore, index_store |-> stg.index_store,
          vector_store |-> stg.vector_store]
    ELSE [docstore |-> stg.docstore,
          index_store |-> [index_id |-> 1, nodes |-> stg.index_store.nodes],
          vector_store |-> stg.vector_store]

\* IndexManager.load_index: None when the directory is missing or when
\* StorageContext.from_defaults / load_index_from_storage raise because a
\* store file or the index struct is missing; otherwise the stores as read
LoadIndex(stg) ==
    IF /\ stg.exists
       /\ stg.docstore # NoDocstore
       /\ stg.index_store # NoIndexStore
       /\ stg.vector_store # NoVectorStore
    THEN [docstore |-> stg.docstore, index_store |-> stg.index_store,
          vector_store |-> stg.vector_store]
    ELSE NoIndex

(* ------------------------------ query processor ----------------------- *)
\* the questions asked
Queries == {1, 2}

\* similarity_top_k of index.as_query_engine()
TopK == 2

\* the index's similarity search is a black box: some fixed score of a
\* stored vector for a question
Similarity(q, vec) == (Len(vec.of) + q * vec.of[1].raw[1]) % 3

\* position of the best-scoring entry of a non-empty vector store (the first
\* one among equals)
Best(q, vs) ==
    CHOOSE k \in 1..Len(vs) :
        /\ \A j \in 1..Len(vs) : Similarity(q, vs[j].vec) <= Similarity(q, vs[k].vec)
        /\ \A j \in 1..(k - 1) : Similarity(q, vs[j].vec) < Similarity(q, vs[k].vec)

\* s without its k-th element
Without(s, k) == SubSeq(s, 1, k - 1) \o SubSeq(s, k + 1, Len(s))

\* the node ids of the n best entries, best first
RECURSIVE Retrieve(_, _, _)
Retrieve(q, vs, n) ==
    IF n = 0 \/ vs = <<>> THEN <<>>
    ELSE LET k == Best(q, vs)
         IN <<vs[k].node_id>> \o Retrieve(q, Without(vs, k), n - 1)

\* the retriever: the best entries among those of the index struct
RetrieveIds(index, q) ==
    Retrieve(q, SelectSeq(index.vector_store,
                          LAMBDA e : e.node_id \in index.index_store.nodes),
             TopK)

\* the docstore node with this id
NodeOf(index, id) ==
    index.docstore[CHOOSE k \in 1..Len(index.docstore) :
                       index.docstore[k].node_id = id]

\* QueryProcessor.query had it not checked for a missing engine
ProcessorQueryUnchecked(qp, q, llmOK) ==
    LET engine == IF qp.query_engine = NoIndex /\ qp.index # NoIndex
                  THEN qp.index ELSE qp.query_engine
    IN [query_engine |-> engine, ret |-> "raised", response |-> <<>>,
        sources |-> <<>>, retrievals |-> 1, llms |-> 0]

\* QueryProcessor.query had it listed the retrieved nodes in the order of the
\* docstore instead of the order of response.source_nodes
ProcessorQueryInStoreOrder(qp, q, llmOK) ==
    LET engine == IF qp.query_engine = NoIndex /\ qp.index # NoIndex
                  THEN qp.index ELSE qp.query_engine
        ids == RetrieveIds(engine, q)
        hits == SelectSeq(engine.docstore,
                          LAMBDA n : \E j \in 1..Len(ids) : ids[j] = n.node_id)
    IN IF engine = NoIndex
       THEN [query_engine |-> engine, ret |-> "none", response |-> <<>>,
             sources |-> <<>>, retrievals |-> 0, llms |-> 0]
       ELSE IF ~llmOK
       THEN [query_engine |-> engine, ret |-> "raised", response |-> <<>>,
             sources |-> <<>>, retrievals |-> 1, llms |-> 1]
       ELSE [query_engine |-> engine, ret |-> "result",
             response |-> <<q, ids>>,
             sources |-> [j \in 1..Len(hits) |->
                             [text |-> hits[j].text, metadata |-> hits[j].metadata]],
             retrievals |-> 1, llms |-> 1]

\* QueryProcessor.query on processor state qp = [index, query_engine]:
\* the query_engine property builds the engine from the index when none is
\* cached; ret is "none", "result" or "raised"
ProcessorQuery(qp, q, llmOK) ==
    LET engine == IF qp.query_engine = NoIndex /\ qp.index # NoIndex
                  THEN qp.index ELSE qp.query_engine
        ids == RetrieveIds(engine, q)
        found == \A j \in 1..Len(ids) :
                    \E k \in 1..Len(engine.docstore) :
                        engine.docstore[k].node_id = ids[j]
    IN IF engine = NoIndex
       THEN [query_engine |-> engine, ret |-> "none", response |-> <<>>,
             sources |-> <<>>, retrievals |-> 0, llms |-> 0]
       ELSE IF ~found
       THEN [query_engine |-> engine, ret |-> "raised", response |-> <<>>,
             sources |-> <<>>, retrievals |-> 1, llms |-> 0]
       ELSE IF ~llmOK
       THEN [query_engine |-> engine, ret |-> "raised", response |-> <<>>,
             sources |-> <<>>, retrievals |-> 1, llms |-> 1]
       ELSE [query_engine |-> engine, ret |-> "result",
             response |-> <<q, ids>>,
             sources |-> [j \in 1..Len(ids) |->
                             [text     |-> NodeOf(engine, ids[j]).text,
                              metadata |-> NodeOf(engine, ids[j]).metadata]],
             retrievals |-> 1, llms |-> 1]

\* QueryProcessor.set_index
SetIndex(index) == [index |-> index, query_engine |-> NoIndex]

(* ------------------------------ RAG service ---------------------------- *)
\* what an operation reports about a layout analysis it did not run
NoAnalysis == [ran |-> FALSE, ret |-> FALSE, documents |-> <<>>,
               analyzed |-> {}, detected |-> {}, skipped |-> {}]

AnalysisInfo(a) == [ran |-> TRUE, ret |-> a.ret, documents |-> a.documents,
                    analyzed |-> a.analyzed, detected |-> a.detected,
                    skipped |-> a.skipped]

\* what an operation reports about a build it did not run
NoBuild == [ran |-> FALSE, ret |-> FALSE, analysis |-> NoAnalysis,
            documents |-> <<>>, created |-> FALSE, createOK |-> FALSE,
            built |-> NoIndex, saved |-> FALSE, written |-> 0,
            installed |-> FALSE]

\* The first half of RAGService.build_index: layout analysis (its result is
\* only logged), then load_all_pdfs, which reads the cache just written
Ingest(files, c) ==
    LET a == AnalyzeLayouts(files, c)
    IN [cache |-> a.cache, analysis |-> AnalysisInfo(a),
        documents |-> LoadAllPdfs(files, a.cache)]

\* build_index had it saved and installed what create_index left behind
\* when the embedding pass failed
BuildIndexSavingAfterCreateError(ing, stg, qp, b, createOK, written) ==
    LET index == CreateIndex(ChunkDocuments(ing.documents, b), b)
        info == [NoBuild EXCEPT !.ran = TRUE, !.analysis = ing.analysis,
                                !.documents = ing.documents]
    IN IF ing.documents = <<>>
       THEN [cache |-> ing.cache, storage |-> stg, qp |-> qp, info |-> info]
       ELSE [cache |-> ing.cache, storage |-> SaveIndex(stg, index, 3),
             qp |-> SetIndex(index),
             info |-> [info EXCEPT !.created = TRUE, !.createOK = createOK,
                                   !.built = index, !.saved = TRUE,
                                   !.written = 3, !.installed = TRUE,
                                   !.ret = createOK]]

\* build_index had it given up when layout analysis reported a failure
BuildIndexStoppingAtLayoutFailure(ing, stg, qp, b, createOK, written) ==
    LET index == CreateIndex(ChunkDocuments(ing.documents, b), b)
        info == [NoBuild EXCEPT !.ran = TRUE, !.analysis = ing.analysis,
                                !.documents = ing.documents]
    IN IF ing.documents = <<>> \/ ~ing.analysis.ret
       THEN [cache |-> ing.cache, storage |-> stg, qp |-> qp, info |-> info]
       ELSE IF ~createOK
       THEN [cache |-> ing.cache, storage |-> stg, qp |-> qp,
             info |-> [info EXCEPT !.created = TRUE]]
       ELSE [cache |-> ing.cache, storage |-> SaveIndex(stg, index, written),
             qp |-> IF written = 3 THEN SetIndex(index) ELSE qp,
             info |-> [info EXCEPT !.created = TRUE, !.createOK = TRUE,
                                   !.built = index, !.saved = TRUE,
                                   !.written = written,
                                   !.installed = (written = 3),
                                   !.ret = (written = 3)]]

\* build_index had it assigned query_processor.index itself instead of
\* calling set_index: the cached query engine stays
BuildIndexAssigningIndex(ing, stg, qp, b, createOK, written) ==
    LET index == CreateIndex(ChunkDocuments(ing.documents, b), b)
        info == [NoBuild EXCEPT !.ran = TRUE, !.analysis = ing.analysis,
                                !.documents = ing.documents]
    IN IF ing.documents = <<>>
       THEN [cache |-> ing.cache, storage |-> stg, qp |-> qp, info |-> info]
       ELSE IF ~createOK
       THEN [cache |-> ing.cache, storage |-> stg, qp |-> qp,
             info |-> [info EXCEPT !.created = TRUE]]
       ELSE [cache |-> ing.cache, storage |-> SaveIndex(stg, index, written),
             qp |-> IF written = 3 THEN [qp EXCEPT !.index = index] ELSE qp,
             info |-> [info EXCEPT !.created = TRUE, !.createOK = TRUE,
                                   !.built = index, !.saved = TRUE,
                                   !.written = written,
                                   !.installed = (written = 3),
                                   !.ret = (written = 3)]]

\* build_index had it called set_index before save_index
BuildIndexInstallingBeforeSave(ing, stg, qp, b, createOK, written) ==
    LET index == CreateIndex(ChunkDocuments(ing.documents, b), b)
        info == [NoBuild EXCEPT !.ran = TRUE, !.analysis = ing.analysis,
                                !.documents = ing.documents]
    IN IF ing.documents = <<>>
       THEN [cache |-> ing.cache, storage |-> stg, qp |-> qp, info |-> info]
       ELSE IF ~createOK
       THEN [cache |-> ing.cache, storage |-> stg, qp |-> qp,
             info |-> [info EXCEPT !.created = TRUE]]
       ELSE [cache |-> ing.cache, storage |-> SaveIndex(stg, index, written),
             qp |-> SetIndex(index),
             info |-> [info EXCEPT !.created = TRUE, !.createOK = TRUE,
                                   !.built = index, !.saved = TRUE,
                                   !.written = written, !.installed = TRUE,
                                   !.ret = (written = 3)]]

\* RAGService.build_index, given what its first half did. b numbers the
\* build, createOK is whether create_index (the embedding pass) succeeds,
\* written how many store files save_index writes before failing (3: it
\* succeeds). Any exception is caught and turned into False.
BuildIndex(ing, stg, qp, b, createOK, written) ==
    LET documents == ing.documents
        nodes == ChunkDocuments(documents, b)
        index == CreateIndex(nodes, b)
        info == [NoBuild EXCEPT !.ran = TRUE, !.analysis = ing.analysis,
                                !.documents = documents]
    IN IF documents = <<>>
       THEN [cache |-> ing.cache, storage |-> stg, qp |-> qp, info |-> info]
       ELSE IF ~createOK
       THEN [cache |-> ing.cache, storage |-> stg, qp |-> qp,
             info |-> [info EXCEPT !.created = TRUE]]
       ELSE IF written < 3
       THEN [cache |-> ing.cache, storage |-> SaveIndex(stg, index, written),
             qp |-> qp,
             info |-> [info EXCEPT !.created = TRUE, !.createOK = TRUE,
                                   !.built = index, !.saved = TRUE,
                                   !.written = written]]
       ELSE [cache |-> ing.cache, storage |-> SaveIndex(stg, index, written),
             qp |-> SetIndex(index),
             info |-> [info EXCEPT !.created = TRUE, !.createOK = TRUE,
                                   !.built = index, !.saved = TRUE,
                                   !.written = written, !.installed = TRUE,
                                   !.ret = TRUE]]

\* RAGService._load_existing_index
LoadExistingIndex(stg, qp) ==
    LET index == LoadIndex(stg)
    IN IF index # NoIndex THEN [qp |-> SetIndex(index), ret |-> TRUE]
       ELSE [qp |-> qp, ret |-> FALSE]

\* what an operation reports about a query it did not run
NoAnswer == [ret |-> "none", response |-> <<>>, sources |-> <<>>,
             retrievals |-> 0, llms |-> 0]

AnswerInfo(r) == [ret |-> r.ret, response |-> r.response, sources |-> r.sources,
                  retrievals |-> r.retrievals, llms |-> r.llms]

\* query had it built an index without looking for one in memory or on disk
ServiceQueryAlwaysBuilding(c, ing, stg, qp, b, q, createOK, written, llmOK) ==
    LET bi == BuildIndex(ing, stg, qp, b, createOK, written)
        r == ProcessorQuery(bi.qp, q, llmOK)
    IN IF ~bi.info.ret
       THEN [cache |-> bi.cache, storage |-> bi.storage, qp |-> bi.qp,
             loads |-> 0, build |-> bi.info, answer |-> NoAnswer]
       ELSE [cache |-> bi.cache, storage |-> bi.storage,
             qp |-> [index |-> bi.qp.index, query_engine |-> r.query_engine],
             loads |-> 0, build |-> bi.info, answer |-> AnswerInfo(r)]

\* RAGService.query: load when no index is in memory, build when none could
\* be loaded, give up when the build fails, else ask the query processor.
\* c is the layout cache, ing what the first half of a build does from it.
ServiceQuery(c, ing, stg, qp, b, q, createOK, written, llmOK) ==
    LET l == LoadExistingIndex(stg, qp)
        bi == BuildIndex(ing, stg, qp, b, createOK, written)
        ask(cc, ss, pp, loads, binfo) ==
            LET r == ProcessorQuery(pp, q, llmOK)
            IN [cache |-> cc, storage |-> ss,
                qp |-> [index |-> pp.index, query_engine |-> r.query_engine],
                loads |-> loads, build |-> binfo, answer |-> AnswerInfo(r)]
    IN IF qp.index # NoIndex THEN ask(c, stg, qp, 0, NoBuild)
       ELSE IF l.ret THEN ask(c, stg, l.qp, 1, NoBuild)
       ELSE IF ~bi.info.ret
       THEN [cache |-> bi.cache, storage |-> bi.storage, qp |-> bi.qp,
             loads |-> 1, build |-> bi.info, answer |-> NoAnswer]
       ELSE ask(bi.cache, bi.storage, bi.qp, 1, bi.info)

(* ------------------------------ command line --------------------------- *)
\* the models check_environment requires
RequiredModels == {"llm", "embedding"}

\* the Ollama service as the checks see it: down, or answering with some
\* of the models
Envs ==
    {[running |-> FALSE, models |-> {}]}
    \cup {[running |-> TRUE, models |-> m] : m \in SUBSET RequiredModels}

OllamaUp == [running |-> TRUE, models |-> RequiredModels]

\* list_models: nothing when the service does not answer
ListModels(env) == IF env.running THEN env.models ELSE {}

\* check_environment had it looked only at the service, not at the models
CheckEnvironmentWithoutModels(env) == env.running

\* check_environment of app.py
CheckEnvironment(env) ==
    IF ~env.running THEN FALSE
    ELSE IF RequiredModels \ ListModels(env) # {} THEN FALSE
    ELSE TRUE

\* sys.argv[1] of main
Commands == {"status", "index", "interactive"}

(* ------------------------------ state ---------------------------------- *)
VARIABLES
    files,         \* the PDF files of the pdfs directory, in glob order
    cache,         \* layout_outputs: one directory per file
    storage,       \* the storage directory with the persisted index
    service,       \* whether a RAGService has been constructed
    qp,            \* its QueryProcessor: [index, query_engine]
    nBuilds,       \* build_index runs so far
    analyzeRun,    \* the latest analyze_layouts run: "none", "first", "later"
    analyzedIn,    \* per file: the analyze_layouts runs that called analyze_pdf
    detectedIn,    \* per file: the analyze_layouts runs that called the detector
    saved,         \* the index of the latest complete save_index, while the
                   \* storage directory is as that save left it
    synced,        \* the index most recently loaded or completely saved
    lazyBuilt,     \* a query of this service has built the index
    last,          \* the most recent operation and what it did
    ollama,        \* the Ollama service: [running, models]
    call           \* the text under clean_text / load_single_pdf and the result

vars == <<files, cache, storage, service, qp, nBuilds, analyzeRun,
          analyzedIn, detectedIn, saved, synced, lazyBuilt, last, ollama,
          call>>

\* the report of an operation: its name, the index and storage it started
\* from, and the analysis / build / load / answer it performed
Report(op, analysis, build, loads, answer, documents) ==
    [op |-> op,
     before |-> [index |-> qp.index, storage |-> storage,
                 lazyBuilt |-> lazyBuilt],
     analysis |-> analysis, build |-> build, loads |-> loads,
     answer |-> answer, documents |-> documents]

\* the state before any service is constructed, for the directory dir
InitWith(dir) ==
    /\ files = dir
    /\ cache = [d \in 1..Len(dir) |-> NoDir]
    /\ storage = NoStorage
    /\ service = FALSE
    /\ qp = SetIndex(NoIndex)
    /\ nBuilds = 0
    /\ analyzeRun = "none"
    /\ analyzedIn = [d \in 1..Len(dir) |-> {}]
    /\ detectedIn = [d \in 1..Len(dir) |-> {}]
    /\ saved = NoIndex
    /\ synced = NoIndex
    /\ lazyBuilt = FALSE
    /\ last = [op |-> "none",
               before |-> [index |-> NoIndex, storage |-> NoStorage,
                           lazyBuilt |-> FALSE],
               analysis |-> NoAnalysis, build |-> NoBuild, loads |-> 0,
               answer |-> NoAnswer, documents |-> <<>>]

\* no text utility has been called
NoCall == [fn |-> "none", text |-> <<>>, pages |-> <<>>, layout_info |-> <<>>,
           times |-> 0, prev |-> <<>>, out |-> <<>>]

\* the service runs with Ollama up and no text under study
Idle == ollama = OllamaUp /\ call = NoCall

Init == \E dir \in PdfDirs(MaxPdfs) : InitWith(dir) /\ Idle

\* the name of the analyze_layouts run that follows run
NextRun(run) == IF run = "none" THEN "first" ELSE "later"

\* the runs recorded per file once an analysis has touched the files docs
Record(runs, docs, run) ==
    [d \in DOMAIN runs |-> IF d \in docs THEN runs[d] \cup {run} ELSE runs[d]]

\* how create_index and save_index can end: the embedding pass fails, or
\* it succeeds and save_index writes 0..3 store files (3: it succeeds)
BuildOutcomes ==
    {[createOK |-> FALSE, written |-> 0]} \cup
    {[createOK |-> TRUE, written |-> w] : w \in 0..3}

\* saved and synced after a build that reported info
SavedAfter(info) ==
    IF info.ret THEN info.built
    ELSE IF info.saved /\ info.written > 0 THEN NoIndex
    ELSE saved

SyncedAfter(info) == IF info.ret THEN info.built ELSE synced

\* the state a finished operation leaves: the report and the processor
Finish(report, newqp) ==
    /\ last' = report
    /\ qp' = newqp

\* the state a layout analysis leaves, run with the result a
Analyzed(newcache, a) ==
    /\ cache' = newcache
    /\ analyzeRun' = NextRun(analyzeRun)
    /\ analyzedIn' = Record(analyzedIn, a.analyzed, NextRun(analyzeRun))
    /\ detectedIn' = Record(detectedIn, a.detected, NextRun(analyzeRun))

\* the state a build leaves, run with the result r
Built(r) ==
    /\ storage' = r.storage
    /\ saved' = SavedAfter(r.info)
    /\ synced' = SyncedAfter(r.info)
    /\ nBuilds' = nBuilds + 1

\* the state _load_existing_index leaves in a new service, with the result l
Loaded(l) ==
    /\ synced' = IF l.ret THEN l.qp.index ELSE synced
    /\ Finish([Report("construct", NoAnalysis, NoBuild, 1, NoAnswer, <<>>)
                 EXCEPT !.before.index = NoIndex], l.qp)

\* RAGService.__init__: initialize_settings makes the storage directory,
\* a fresh QueryProcessor is created, _load_existing_index runs
Construct ==
    /\ storage' = [storage EXCEPT !.exists = TRUE]
    /\ service' = TRUE
    /\ lazyBuilt' = FALSE
    /\ Loaded(LoadExistingIndex([storage EXCEPT !.exists = TRUE],
                                SetIndex(NoIndex)))
    /\ UNCHANGED <<ollama, call, files, cache, nBuilds, analyzeRun,
                   analyzedIn, detectedIn, saved>>

\* a call of PDFLoader.load_all_pdfs
LoadAllPdfsCall ==
    /\ service
    /\ Finish(Report("load_all_pdfs", NoAnalysis, NoBuild, 0, NoAnswer,
                     LoadAllPdfs(files, cache)), qp)
    /\ UNCHANGED <<ollama, call, files, cache, storage, service, nBuilds,
                   analyzeRun, analyzedIn, detectedIn, saved, synced,
                   lazyBuilt>>

\* analyze_layouts has run with the result a
AnalyzeLayoutsDone(a) ==
    /\ Analyzed(a.cache, a)
    /\ Finish(Report("analyze_layouts", AnalysisInfo(a), NoBuild, 0, NoAnswer,
                     <<>>), qp)

\* a call of RAGService.analyze_layouts
AnalyzeLayoutsCall ==
    /\ service
    /\ AnalyzeLayoutsDone(AnalyzeLayouts(files, cache))
    /\ UNCHANGED <<ollama, call, files, storage, service, nBuilds, saved,
                   synced, lazyBuilt>>

\* build_index has run with the result r
BuildIndexDone(r) ==
    /\ Built(r)
    /\ Finish(Report("build_index", NoAnalysis, r.info, 0, NoAnswer, <<>>), r.qp)

\* build_index runs from what its first half did
BuildIndexFrom(ing) ==
    /\ Analyzed(ing.cache, ing.analysis)
    /\ \E o \in BuildOutcomes :
          BuildIndexDone(BuildIndex(ing, storage, qp, nBuilds + 1,
                                    o.createOK, o.written))

\* a call of RAGService.build_index
BuildIndexCall ==
    /\ service
    /\ nBuilds < MaxBuilds
    /\ BuildIndexFrom(Ingest(files, cache))
    /\ UNCHANGED <<ollama, call, files, service, lazyBuilt>>

\* query has run without building, with the result r
QueryDone(r) ==
    /\ synced' = IF r.loads = 1 THEN r.qp.index ELSE synced
    /\ Finish(Report("query", NoAnalysis, r.build, r.loads, r.answer, <<>>), r.qp)

\* a call of RAGService.query that finds an index in memory or on disk
QueryCall ==
    /\ service
    /\ qp.index # NoIndex \/ LoadIndex(storage) # NoIndex
    /\ \E q \in Queries, llmOK \in BOOLEAN :
          QueryDone(ServiceQuery(cache, Ingest(files, cache), storage, qp,
                                 nBuilds + 1, q, TRUE, 3, llmOK))
    /\ UNCHANGED <<ollama, call, files, cache, storage, service, nBuilds,
                   analyzeRun, analyzedIn, detectedIn, saved, lazyBuilt>>

\* query has run and built, with the result r
QueryBuildDone(r) ==
    /\ Built([storage |-> r.storage, info |-> r.build])
    /\ lazyBuilt' = (lazyBuilt \/ r.build.ret)
    /\ Finish(Report("query", NoAnalysis, r.build, r.loads, r.answer, <<>>), r.qp)

\* query builds from what the first half of build_index did
QueryBuildFrom(ing) ==
    /\ Analyzed(ing.cache, ing.analysis)
    /\ \E q \in Queries, o \in BuildOutcomes, llmOK \in BOOLEAN :
          QueryBuildDone(ServiceQuery(cache, ing, storage, qp, nBuilds + 1, q,
                                      o.createOK, o.written, llmOK))

\* a call of RAGService.query that finds none and builds one first
QueryBuildCall ==
    /\ service
    /\ qp.index = NoIndex /\ LoadIndex(storage) = NoIndex
    /\ nBuilds < MaxBuilds
    /\ QueryBuildFrom(Ingest(files, cache))
    /\ UNCHANGED <<ollama, call, files, service>>

\* QueryProcessor.query has run with the result r
ProcessorQueryDone(r) ==
    Finish(Report("processor_query", NoAnalysis, NoBuild, 0, AnswerInfo(r), <<>>),
           [qp EXCEPT !.query_engine = r.query_engine])

\* a call of QueryProcessor.query on a processor that has no index (with an
\* index it is the last step of RAGService.query)
ProcessorQueryCall ==
    /\ service
    /\ qp.index = NoIndex
    /\ \E q \in Queries, llmOK \in BOOLEAN :
          ProcessorQueryDone(ProcessorQuery(qp, q, llmOK))
    /\ UNCHANGED <<ollama, call, files, cache, storage, service, nBuilds,
                   analyzeRun, analyzedIn, detectedIn, saved, synced,
                   lazyBuilt>>

\* analyze_pdf has run on file d with the result a; an exception of the
\* analyzer reaches the caller (ret is FALSE)
AnalyzePdfDone(d, a) ==
    /\ cache' = [cache EXCEPT ![d] = a.cache]
    /\ Finish(Report("analyze_pdf",
                     [ran |-> TRUE, ret |-> ~a.raised, documents |-> <<>>,
                      analyzed |-> {d},
                      detected |-> IF a.predicts > 0 THEN {d} ELSE {},
                      skipped |-> {}],
                     NoBuild, 0, NoAnswer, <<>>), qp)

\* a call of DocumentLayoutAnalyzer.analyze_pdf on a file of the directory
AnalyzePdfCall ==
    /\ service
    /\ \E d \in 1..Len(files) : AnalyzePdfDone(d, AnalyzePdf(cache[d], files[d]))
    /\ UNCHANGED <<ollama, call, files, storage, service, nBuilds,
                   analyzeRun, analyzedIn, detectedIn, saved, synced,
                   lazyBuilt>>

\* a call of clean_text: on the text under study, then on its own result
CleanTextCall ==
    /\ call.fn \in {"none", "clean_text"}
    /\ call.pages = <<>>
    /\ call.times < 2
    /\ call' = [call EXCEPT !.fn = "clean_text",
                            !.times = @ + 1,
                            !.prev = call.out,
                            !.out = CleanText(IF call.times = 0 THEN call.text
                                              ELSE call.out)]
    /\ UNCHANGED <<ollama, files, cache, storage, service, qp, nBuilds,
                   analyzeRun, analyzedIn, detectedIn, saved, synced,
                   lazyBuilt, last>>

\* the text part of load_single_pdf on the pages under study
LoadSinglePdfTextCall ==
    /\ call.fn = "none"
    /\ call.pages # <<>>
    /\ call' = [call EXCEPT !.fn = "load_single_pdf",
                            !.times = 1,
                            !.out = DocText(call.pages, call.layout_info)]
    /\ UNCHANGED <<ollama, files, cache, storage, service, qp, nBuilds,
                   analyzeRun, analyzedIn, detectedIn, saved, synced,
                   lazyBuilt, last>>

\* main returns before constructing anything: the process holds no service
MainReturned ==
    /\ service' = FALSE
    /\ lazyBuilt' = FALSE
    /\ Finish(Report("main", NoAnalysis, NoBuild, 0, NoAnswer, <<>>),
              SetIndex(NoIndex))
    /\ UNCHANGED <<cache, storage, nBuilds, analyzeRun, analyzedIn,
                   detectedIn, saved, synced>>

\* main has constructed the service (l is what _load_existing_index did),
\* analyzed the layouts (a) and found an index to serve: interactive mode
\* goes to its prompt
MainReady(l, a) ==
    /\ storage' = [storage EXCEPT !.exists = TRUE]
    /\ synced' = l.qp.index
    /\ Analyzed(a.cache, a)
    /\ Finish(Report("main", AnalysisInfo(a), NoBuild, 1, NoAnswer, <<>>), l.qp)
    /\ UNCHANGED <<nBuilds, saved>>

\* main has run build_index with the result r, after its own analysis a and
\* the analysis of the build (ing)
MainBuilt(l, a, ing, r) ==
    /\ storage' = r.storage
    /\ saved' = SavedAfter(r.info)
    /\ synced' = IF r.info.ret THEN r.info.built
                 ELSE IF l.ret THEN l.qp.index ELSE synced
    /\ nBuilds' = nBuilds + 1
    /\ cache' = ing.cache
    /\ analyzeRun' = "later"
    /\ analyzedIn' = Record(Record(analyzedIn, a.analyzed, NextRun(analyzeRun)),
                            ing.analysis.analyzed, "later")
    /\ detectedIn' = Record(Record(detectedIn, a.detected, NextRun(analyzeRun)),
                            ing.analysis.detected, "later")
    /\ Finish(Report("main", AnalysisInfo(a), r.info, 1, NoAnswer, <<>>), r.qp)

\* main builds: the "index" command, or interactive mode without an index
MainBuildFrom(l, a, ing) ==
    /\ nBuilds < MaxBuilds
    /\ \E o \in BuildOutcomes :
          MainBuilt(l, a, ing,
                    BuildIndex(ing, [storage EXCEPT !.exists = TRUE], l.qp,
                               nBuilds + 1, o.createOK, o.written))

\* main past the environment check: RAGService(...), analyze_layouts(),
\* then build_index() or interactive_mode()
MainServed(cmd, l, a) ==
    /\ service' = TRUE
    /\ lazyBuilt' = FALSE
    /\ IF cmd = "index" \/ l.qp.index = NoIndex
       THEN MainBuildFrom(l, a, Ingest(files, a.cache))
       ELSE MainReady(l, a)

\* a run of main of app.py, as a new process
MainCall ==
    /\ \E cmd \in Commands :
          IF cmd = "status" \/ ~CheckEnvironment(ollama)
          THEN MainReturned
          ELSE MainServed(cmd,
                          LoadExistingIndex([storage EXCEPT !.exists = TRUE],
                                            SetIndex(NoIndex)),
                          AnalyzeLayouts(files, cache))
    /\ UNCHANGED <<ollama, call, files>>

\* Ollama is started or stopped, a model is pulled or removed
OllamaChange ==
    /\ \E env \in Envs \ {ollama} : ollama' = env
    /\ UNCHANGED <<call, files, cache, storage, service, qp, nBuilds,
                   analyzeRun, analyzedIn, detectedIn, saved, synced,
                   lazyBuilt, last>>

Next ==
    \/ Construct
    \/ AnalyzeLayoutsCall
    \/ BuildIndexCall
    \/ QueryCall
    \/ QueryBuildCall
    \/ ProcessorQueryCall

Spec == Init /\ [][Next]_vars

\* the loader on its own: larger directories, no index
InitScan == \E dir \in PdfDirs(MaxScan) : InitWith(dir) /\ Idle

NextScan ==
    \/ Construct
    \/ AnalyzeLayoutsCall
    \/ LoadAllPdfsCall

SpecScan == InitScan /\ [][NextScan]_vars

\* the analyzer and the loader on their own, over files of several pages
InitCache == \E dir \in CachePdfDirs(MaxPdfs) : InitWith(dir) /\ Idle

NextCache ==
    \/ Construct
    \/ AnalyzeLayoutsCall
    \/ AnalyzePdfCall
    \/ LoadAllPdfsCall

SpecCache == InitCache /\ [][NextCache]_vars

\* the text utilities on their own: a text for clean_text, or the pages of
\* a document and the descriptions of its layout for load_single_pdf
Desc == <<"a", SP, "a">>

LayoutInfos == {<<>>, [p \in {0} |-> <<Desc>>],
                [p \in {0, 1} |-> IF p = 0 THEN <<Desc, Desc>> ELSE <<Desc>>]}

\* documents of one page and of two pages
PageLists ==
    {<<p>> : p \in Texts(MaxPageText)}
    \cup {<<p, q>> : p, q \in Texts(MaxPageText)}

TextInputs ==
    {[NoCall EXCEPT !.text = s] : s \in Texts(MaxText)}
    \cup {[NoCall EXCEPT !.pages = ps, !.layout_info = li] :
              ps \in PageLists, li \in LayoutInfos}

InitText == InitWith(<<>>) /\ ollama = OllamaUp /\ call \in TextInputs

NextText ==
    \/ CleanTextCall
    \/ LoadSinglePdfTextCall

SpecText == InitText /\ [][NextText]_vars

\* the command line: runs of main, the questions typed at the prompt of
\* interactive mode, and Ollama coming and going
InitCli ==
    \E dir \in PdfDirs(MaxPdfs), env \in Envs :
        InitWith(dir) /\ ollama = env /\ call = NoCall

NextCli ==
    \/ MainCall
    \/ QueryCall
    \/ OllamaChange

SpecCli == InitCli /\ [][NextCli]_vars

(* ------------------------------ properties ----------------------------- *)
\* the sources of a sequence of documents or nodes' metadata, in order
Sources(documents) == [k \in 1..Len(documents) |-> documents[k].source]

\* the files of the directory that load, in scan order
RECURSIVE LoadableFrom(_)
LoadableFrom(d) ==
    IF d > Len(files) THEN <<>>
    ELSE (IF files[d].loadable THEN <<d>> ELSE <<>>) \o LoadableFrom(d + 1)

\* a file whose layout analysis goes through: it renders and the detector
\* succeeds on every page
Analyzable(pdf) ==
    pdf.renderOK /\ \A i \in 1..Len(pdf.pages) : pdf.pages[i].detectOK

\* no answer was produced and neither retrieval nor the language model ran
AnsweredNone ==
    last.answer.ret = "none" /\ last.answer.retrievals = 0 /\ last.answer.llms = 0

\* C1: for a document whose layout cache the analyzer wrote, every page with
\* n >= 1 detected elements gets n descriptive strings appended by
\* load_single_pdf (checked on the documents the last build loaded).
C1_LayoutDescriptionsAppended ==
    \A k \in 1..Len(last.build.documents) :
        \A p \in DOMAIN cache[last.build.documents[k].source].layout :
            Len(cache[last.build.documents[k].source].layout[p]) >= 1 =>
                Len(last.build.documents[k].text[p].descs)
                    = Len(cache[last.build.documents[k].source].layout[p])

\* C2: in any sequence of analyze_layouts runs the detector is invoked for a
\* document only in the first run, and a document it was invoked for is
\* never analyzed again.
C2_DetectedOnlyInFirstRun ==
    \A d \in 1..Len(files) :
        /\ detectedIn[d] \subseteq {"first"}
        /\ "first" \in detectedIn[d] => analyzedIn[d] \subseteq {"first"}

\* C3: when analyze_layouts returns, every loaded document whose analysis
\* would succeed has a non-empty cache entry, whatever happened to the
\* other documents.
C3_FailureSkipsOnlyThatDocument ==
    last.op = "analyze_layouts" =>
        \A k \in 1..Len(last.analysis.documents) :
            Analyzable(files[last.analysis.documents[k].source]) =>
                /\ cache[last.analysis.documents[k].source].exists
                /\ cache[last.analysis.documents[k].source].entries # {}

\* C4: a build whose create_index fails never calls save_index, leaves the
\* storage directory and the index in memory as they were, and returns
\* False.
C4_CreateFailureAbortsBuild ==
    (last.build.ran /\ last.build.created /\ ~last.build.createOK) =>
        /\ ~last.build.saved
        /\ ~last.build.installed
        /\ ~last.build.ret
        /\ storage = last.before.storage
        /\ qp.index = last.before.index

C4_Witness ==
    /\ last.op = "build_index"
    /\ last.build.created /\ ~last.build.createOK
    /\ LoadIndex(last.before.storage) # NoIndex

\* C5: the index in memory is absent or the one most recently loaded or
\* completely saved, and a build that returns False changes neither the
\* index in memory nor the storage directory.
C5_BuildAllOrNothing ==
    /\ qp.index = NoIndex \/ qp.index = synced
    /\ (last.build.ran /\ ~last.build.ret) =>
          /\ qp.index = last.before.index
          /\ storage = last.before.storage

\* C6: load_all_pdfs returns exactly one document for each file that loads,
\* in scan order, whatever the files before and after it do.
C6_LoadAllSkipsOnlyFailures ==
    last.op = "load_all_pdfs" => Sources(last.documents) = LoadableFrom(1)

C6_Witness ==
    /\ last.op = "load_all_pdfs"
    /\ Len(files) = 3
    /\ files[1].loadable /\ ~files[2].loadable /\ files[3].loadable
    /\ Len(last.documents) = 2

\* C7: a build over a directory with a file that loads and another file
\* that fails to load or to be analyzed still calls create_index on the
\* documents of exactly the files that load and, unless create_index or
\* save_index itself fails, persists and installs that index and returns
\* True.
C7_BadPdfDoesNotAbortBuild ==
    (/\ last.build.ran
     /\ \E d, e \in 1..Len(files) :
           d # e /\ files[d].loadable
                 /\ (~files[e].loadable \/ ~Analyzable(files[e]))) =>
        /\ last.build.created
        /\ Sources(last.build.documents) = LoadableFrom(1)
        /\ (last.build.createOK /\ last.build.written = 3) =>
              /\ last.build.ret
              /\ last.build.installed
              /\ qp.index = last.build.built
              /\ LoadIndex(storage) = last.build.built
              /\ [k \in 1..Len(qp.index.docstore) |->
                     qp.index.docstore[k].metadata.source] = LoadableFrom(1)

C7_Witness ==
    /\ last.op = "build_index"
    /\ last.build.ret
    /\ \E d, e \in 1..Len(files) :
          /\ files[d].loadable /\ Analyzable(files[d])
          /\ files[e].loadable /\ ~Analyzable(files[e])

\* C8: query builds exactly when no index is in memory and none can be
\* loaded; with an index in memory it neither loads nor builds; and after a
\* query of this service has built the index, no later query builds.
C8_LazyBuildOnlyWithoutIndex ==
    last.op = "query" =>
        /\ last.build.ran <=> (/\ last.before.index = NoIndex
                               /\ LoadIndex(last.before.storage) = NoIndex)
        /\ last.before.index # NoIndex => (last.loads = 0 /\ ~last.build.ran)
        /\ last.before.lazyBuilt => ~last.build.ran

C8_Witness ==
    /\ last.op = "query"
    /\ last.before.lazyBuilt
    /\ last.answer.ret = "result"

\* C9: QueryProcessor.query without an index returns None and runs neither
\* retrieval nor the language model, and RAGService.query returns None
\* when no index is in memory, none can be loaded and the build fails.
C9_NoIndexQueryReturnsNone ==
    /\ (last.op = "processor_query" /\ last.before.index = NoIndex) =>
          AnsweredNone
    /\ (/\ last.op = "query"
        /\ last.before.index = NoIndex
        /\ LoadIndex(last.before.storage) = NoIndex
        /\ ~last.build.ret) => AnsweredNone

C9_Witness ==
    /\ last.op = "processor_query"
    /\ last.before.index = NoIndex
    /\ LoadIndex(storage) = NoIndex
    /\ nBuilds > 0

NothingPersisted(stg) ==
    /\ stg.docstore = NoDocstore
    /\ stg.index_store = NoIndexStore
    /\ stg.vector_store = NoVectorStore

\* C11: load_index returns None, and the caller goes on, whenever no index
\* has been persisted: for a missing storage directory and for one that
\* exists (made by initialize_settings, filled by the layout cache) but
\* holds no index.
C11_LoadWithoutIndexReturnsNone ==
    /\ LoadIndex(NoStorage) = NoIndex
    /\ (last.op = "construct" /\ NothingPersisted(last.before.storage)) =>
          /\ service
          /\ qp.index = NoIndex
          /\ storage = [last.before.storage EXCEPT !.exists = TRUE]

C11_Witness ==
    /\ last.op = "construct"
    /\ last.before.storage.exists
    /\ NothingPersisted(last.before.storage)
    /\ \E d \in 1..Len(files) : cache[d].exists /\ cache[d].entries # {}

\* the build that made a node: node ids are <<build, position>>
BuildOf(node_id) == node_id[1]

\* C12: after a complete save_index of a second index over a first one,
\* load_index yields the second index alone: its stores are exactly the
\* second index's, and no question retrieves a node of an earlier build.
C12_SaveReplacesIndex ==
    (last.build.ran /\ last.build.ret) =>
        /\ LoadIndex(storage) = last.build.built
        /\ \A k \in 1..Len(LoadIndex(storage).docstore) :
              BuildOf(LoadIndex(storage).docstore[k].node_id) = nBuilds
        /\ \A q \in Queries :
              \A j \in 1..Len(RetrieveIds(LoadIndex(storage), q)) :
                  BuildOf(RetrieveIds(LoadIndex(storage), q)[j]) = nBuilds

C12_Witness ==
    /\ last.build.ran /\ last.build.ret
    /\ LoadIndex(last.before.storage) # NoIndex
    /\ LoadIndex(last.before.storage) # LoadIndex(storage)
    /\ Len(LoadIndex(storage).docstore) >= 2

\* C13: analyze_pdf, called for a file whose cache directory exists and is
\* non-empty, invokes the detector zero times and leaves the cache as it is.
C13_AnalyzePdfCacheHit ==
    [][\A d \in 1..Len(files) :
          (/\ last'.op = "analyze_pdf"
           /\ last'.analysis.analyzed = {d}
           /\ cache[d].exists /\ cache[d].entries # {}) =>
              /\ last'.analysis.detected = {}
              /\ cache' = cache]_vars

\* the analyzer has written a manifest for some page of file d
HasLayoutCache(d) == cache[d].exists /\ DOMAIN cache[d].layout # {}

\* C14: every document load_single_pdf returns has has_layout_analysis set
\* exactly when the analyzer's cache exists for it, and without a cache no
\* description is added to any page.
C14_FlagIffCacheExists ==
    last.op = "load_all_pdfs" =>
        \A k \in 1..Len(last.documents) :
            /\ last.documents[k].has_layout_analysis
                  <=> HasLayoutCache(last.documents[k].source)
            /\ ~cache[last.documents[k].source].exists =>
                  \A p \in 1..Len(last.documents[k].text) :
                      last.documents[k].text[p].descs = <<>>

\* the manifest m of a page lists the detections dets, numbered per label
ManifestOf(m, dets, page) ==
    /\ Len(m) = Len(dets)
    /\ \A j \in 1..Len(m) :
          /\ m[j].label = dets[j]
          /\ m[j].page = page
          /\ m[j].id = <<dets[j], "_",
                         Str(Cardinality({i \in 1..(j - 1) : dets[i] = dets[j]}))>>
    /\ \A j, k \in 1..Len(m) : j # k => m[j].id # m[k].id
    /\ \A j \in 1..Len(m) :
          {ParseInt(m[k].id[3]) : k \in {i \in 1..Len(m) : m[i].label = m[j].label}}
              = 0..(Cardinality({i \in 1..Len(m) : m[i].label = m[j].label}) - 1)

\* C18: every persisted page manifest has one element per detected region
\* in detection order, the k-th detection of a label carrying the id
\* <label>_<k-1>: ids are distinct within the page, each label's indices are
\* 0..n-1, and the numbering starts again on every page.
C18_ManifestNumberedPerLabel ==
    \A d \in 1..Len(files) :
        \A p \in DOMAIN cache[d].layout :
            ManifestOf(cache[d].layout[p], files[d].pages[p].dets, p - 1)

C18_Witness ==
    \E d \in 1..Len(files) :
        /\ DOMAIN cache[d].layout = {1, 2}
        /\ cache[d].layout[1][2].id = <<"table", "_", "1">>
        /\ cache[d].layout[2][1].id = <<"table", "_", "0">>

\* C17: a query answered from an index returns the synthesized answer and
\* one source per retrieved node, in the order the index returned them, each
\* with that node's text and metadata.
C17_SourcesFollowRetrieval ==
    last.answer.ret = "result" =>
        /\ last.answer.response # <<>>
        /\ Len(last.answer.sources)
              = Len(RetrieveIds(qp.index, last.answer.response[1]))
        /\ \A j \in 1..Len(last.answer.sources) :
              /\ last.answer.sources[j].text
                    = NodeOf(qp.index,
                             RetrieveIds(qp.index, last.answer.response[1])[j]).text
              /\ last.answer.sources[j].metadata
                    = NodeOf(qp.index,
                             RetrieveIds(qp.index, last.answer.response[1])[j]).metadata

C17_Witness ==
    /\ last.answer.ret = "result"
    /\ Len(last.answer.sources) = 2
    /\ last.answer.sources[1].metadata.source = 2
    /\ last.answer.sources[2].metadata.source = 1

\* C15: clean_text is idempotent: cleaning the result of clean_text gives
\* that result again.
C15_CleanTextIdempotent ==
    (call.fn = "clean_text" /\ call.times = 2) => call.out = call.prev

C15_Witness ==
    /\ call.fn = "clean_text" /\ call.times = 2
    /\ call.text = <<SP, "a", NL, NL, NL, NL>>
    /\ call.out = <<"a">>

\* t has no run of three newlines, no run of two spaces and no whitespace
\* at either end
Normalized(t) ==
    /\ \A i \in 1..(Len(t) - 2) : ~(t[i] = NL /\ t[i + 1] = NL /\ t[i + 2] = NL)
    /\ \A i \in 1..(Len(t) - 1) : ~(t[i] = SP /\ t[i + 1] = SP)
    /\ t # <<>> => (t[1] \notin {SP, NL} /\ t[Len(t)] \notin {SP, NL})

\* C16: the result of clean_text has no run of three or more newlines, no
\* run of two or more spaces and no leading or trailing whitespace; and the
\* text of a loaded document is clean_text applied once to the pages, with
\* their descriptions, joined by blank lines.
C16_CleanedOnceAfterFusion ==
    /\ call.fn = "clean_text" => Normalized(call.out)
    /\ call.fn = "load_single_pdf" =>
          /\ Normalized(call.out)
          /\ call.out = CleanText(Join(DocPages(call.pages, call.layout_info),
                                       <<NL, NL>>))

C16_Witness ==
    /\ call.fn = "load_single_pdf"
    /\ call.pages = <<<<"a", NL>>, <<SP, "a">>>>
    /\ DOMAIN call.layout_info = {0}
    /\ call.out = <<"a">> \o <<NL, NL>> \o Desc \o <<NL, NL, SP, "a">>

\* the environment check of main has reason to fail: the service does not
\* answer or a required model is missing
EnvironmentBroken ==
    ~ollama.running \/ ollama.models # {"llm", "embedding"}

\* C20: a run of main that finds Ollama unreachable or a required model
\* missing constructs no RAGService and performs no layout analysis,
\* document loading, index build, index load or query: the layout cache, the
\* storage directory and the counts of analyses and builds stay as they were.
C20_EnvironmentCheckedFirst ==
    [][(last'.op = "main" /\ ollama' = ollama /\ EnvironmentBroken) =>
          /\ ~service'
          /\ qp'.index = NoIndex
          /\ ~last'.analysis.ran
          /\ ~last'.build.ran
          /\ last'.loads = 0
          /\ last'.answer = NoAnswer
          /\ cache' = cache
          /\ storage' = storage
          /\ nBuilds' = nBuilds
          /\ analyzeRun' = analyzeRun]_vars

C20_Witness ==
    /\ last.op = "main"
    /\ EnvironmentBroken
    /\ ollama.running
    /\ ~service
    /\ ~last.analysis.ran
    /\ files # <<>>
    /\ LoadIndex(storage) # NoIndex

\* C21: every document analyze_layouts skips as already analyzed has a
\* complete cache entry: a page directory with a layout.json for every page
\* of the file.
C21_SkippedCacheComplete ==
    last.op = "analyze_layouts" =>
        \A d \in last.analysis.skipped :
            \A p \in 1..Len(files[d].pages) :
                /\ <<PageDirName(p - 1), LayoutJson>> \in cache[d].entries
                /\ p \in DOMAIN cache[d].layout

\* C22: the query engine the processor holds is always the one made from
\* its current index: set_index drops the cached engine, and every answer of
\* a query comes from nodes of the index most recently set.
C22_EngineOfCurrentIndex ==
    /\ qp.query_engine = NoIndex \/ qp.query_engine = qp.index
    /\ (last.op = "query" /\ last.answer.ret = "result") =>
          \A j \in 1..Len(last.answer.response[2]) :
              last.answer.response[2][j] \in qp.index.index_store.nodes

C22_Witness ==
    /\ last.op = "query"
    /\ last.answer.ret = "result"
    /\ nBuilds = 2
    /\ last.before.index = qp.index
    /\ qp.index.index_store.index_id = 2
    /\ qp.query_engine = qp.index

====
